---- MODULE Spec2Model ----
(***************************************************************************)
(* Model of litellm's Weave logging integration                            *)
(* (litellm/integrations/weave.py, litellm/types/integrations/weave.py).   *)
(*                                                                         *)
(* Python values are tagged records [t |-> <type>, v |-> <payload>]; a     *)
(* dict is a function from its (string) keys to values, so dict equality   *)
(* ignores insertion order exactly as Python's does.                       *)
(***************************************************************************)
EXTENDS Integers, Sequences, FiniteSets, TLC

VARIABLES
    environ,      \* os.environ: the WANDB_* variables that are set
    logger,       \* "new" | "ready" | "failed": outcome of WeaveLogger.__init__
    init_args,    \* the arguments WeaveLogger(...) was constructed with
    credentials,  \* self.credentials (None until __init__ returns)
    hook,         \* which hook is running: "none" | "success" | "failure"
    pc,           \* position inside the running hook
    kwargs,       \* the kwargs the hook / _prepare_data was called with
    times,        \* <<start_time, end_time>> handed to the hook
    log_data,     \* result of _prepare_data(kwargs)
    again,        \* result of _prepare_data on the already prepared fields
    payload,      \* result of _prepare_call_start_payload(log_data, ...)
    error,        \* the exception that left __init__ or the hook ("none" if none)
    emitted       \* requests handed to the transport, in order

vars == <<environ, logger, init_args, credentials, hook, pc, kwargs, times, log_data, again,
          payload, error, emitted>>

----------------------------------------------------------------------------
(* Bounds of the input universe *)

MaxExtra == 1      \* top-level keys of standard_logging_data besides the core ones
MaxMeta == 1       \* entries of the metadata dict
MaxMapValue == 1   \* entries of model_map_information["model_map_value"]
MaxSecond == 1     \* datetimes handed to the hooks are seconds 0..MaxSecond

----------------------------------------------------------------------------
(* Python values *)

None == [t |-> "none"]
Str(s) == [t |-> "str", v |-> s]
Num(n) == [t |-> "int", v |-> n]
Bool(b) == [t |-> "bool", v |-> b]
List(s) == [t |-> "list", v |-> s]
Dict(f) == [t |-> "dict", v |-> f]

EmptyMap == [k \in {} |-> None]

\* `sub in k` for two Python strings
Contains(sub, k) ==
    \E i \in 1..(Len(k) - Len(sub) + 1) : SubSeq(k, i, i + Len(sub) - 1) = sub

\* {k: v for k, v in d.items() if k in keep}
Restrict(d, keep) == [k \in (DOMAIN d) \cap keep |-> d[k]]

\* d.get(k, default) / d.get(k)
Get(d, k, default) == IF k \in DOMAIN d THEN d[k] ELSE default

\* d after d.pop(k, None)
Pop(d, k) == Restrict(d, (DOMAIN d) \ {k})

\* d after d[k] = v
Put(d, k, v) == [x \in (DOMAIN d) \cup {k} |-> IF x = k THEN v ELSE d[x]]

\* len(v) for the sized values of the model
PyLen(v) == IF v.t = "dict" THEN Cardinality(DOMAIN v.v) ELSE Len(v.v)

\* bool(v)
Truthy(v) ==
    CASE v.t = "none" -> FALSE
      [] v.t = "bool" -> v.v
      [] v.t = "int"  -> v.v # 0
      [] OTHER        -> PyLen(v) # 0

\* a raised exception / a returned value
Raise(e) == [ok |-> FALSE, error |-> e]
Return(x) == [ok |-> TRUE, value |-> x]

----------------------------------------------------------------------------
(* litellm/types/integrations/weave.py: pydantic models.  A field declared *)
(* `str` or `Dict[...]` is required and rejects None.                      *)

IsStr(v) == v.t = "str"
IsDictStrAny(v) == v.t = "dict"
IsDictStrStr(v) == v.t = "dict" /\ \A k \in DOMAIN v.v : v.v[k].t = "str"

WeaveCredentials(wandb_api_key, wandb_entity, weave_project) ==
    IF IsStr(wandb_api_key) /\ IsStr(wandb_entity) /\ IsStr(weave_project)
    THEN Return([wandb_api_key |-> wandb_api_key.v,
                 wandb_entity  |-> wandb_entity.v,
                 weave_project |-> weave_project.v])
    ELSE Raise("ValidationError")

WeaveLogData(standard_logging_data, call_type, error_str, error_information, response) ==
    IF /\ IsStr(call_type)
       /\ IsStr(error_str)
       /\ IsDictStrStr(error_information)
       /\ IsDictStrAny(response)
    THEN Return([standard_logging_data |-> standard_logging_data,
                 call_type             |-> call_type.v,
                 error_str             |-> error_str,
                 error_information     |-> error_information,
                 response              |-> response])
    ELSE Raise("ValidationError")

----------------------------------------------------------------------------
(* WeaveLogger.__init__ / _get_credentials_from_env *)

\* os.getenv(name)
getenv(env, name) == IF name \in DOMAIN env THEN Str(env[name]) ELSE None

\* a or b
PyOr(a, b) == IF Truthy(a) THEN a ELSE b

\* variant: a missing project falls back to a default name
_get_credentials_from_env_default_project(env, wandb_api_key, wandb_entity, weave_project) ==
    LET _credentials_api_key == PyOr(wandb_api_key, getenv(env, "WANDB_API_KEY"))
        _credentials_entity  == PyOr(wandb_entity, getenv(env, "WANDB_ENTITY"))
        _credentials_project ==
            PyOr(PyOr(weave_project, getenv(env, "WANDB_PROJECT")), Str("litellm"))
    IN  IF _credentials_api_key = None THEN Raise("Exception: W&B API Key is not set")
        ELSE WeaveCredentials(_credentials_api_key, _credentials_entity, _credentials_project)

_get_credentials_from_env(env, wandb_api_key, wandb_entity, weave_project) ==
    LET _credentials_api_key == PyOr(wandb_api_key, getenv(env, "WANDB_API_KEY"))
        _credentials_entity  == PyOr(wandb_entity, getenv(env, "WANDB_ENTITY"))
        _credentials_project == PyOr(weave_project, getenv(env, "WANDB_PROJECT"))
    IN  IF _credentials_api_key = None THEN Raise("Exception: W&B API Key is not set")
        ELSE IF _credentials_project = None THEN Raise("Exception: provide a project name")
        ELSE WeaveCredentials(_credentials_api_key, _credentials_entity, _credentials_project)

----------------------------------------------------------------------------
(* WeaveLogger._prepare_data and its local helpers *)

\* variant: drops only the key that is exactly "token"
_remove_keys_with_tokens_exact(data) ==
    Restrict(data, {k \in DOMAIN data : k # "token"})

_remove_keys_with_tokens(data) ==
    Restrict(data, {k \in DOMAIN data : ~Contains("token", k)})

timing_keys == {"startTime", "endTime", "completionStartTime", "response_time"}

_remove_timing_keys(data) ==
    Restrict(data, {k \in DOMAIN data : k \notin timing_keys})

\* variant: an empty applied_guardrails is left in place
_redact_and_clean_metadata_keep_guardrails(metadata) ==
    IF ~Truthy(metadata) THEN EmptyMap
    ELSE LET redacted_metadata ==
                 Restrict(metadata.v, {k \in DOMAIN metadata.v : ~Contains("_api_", k)})
         IN  Restrict(redacted_metadata,
                      {k \in DOMAIN redacted_metadata : redacted_metadata[k] # None})

\* metadata is None or a dict; the result is a plain mapping
_redact_and_clean_metadata(metadata) ==
    IF ~Truthy(metadata) THEN EmptyMap
    ELSE LET redacted_metadata ==
                 Restrict(metadata.v, {k \in DOMAIN metadata.v : ~Contains("_api_", k)})
             cleaned_metadata ==
                 Restrict(redacted_metadata,
                          {k \in DOMAIN redacted_metadata : redacted_metadata[k] # None})
         IN  IF PyLen(Get(cleaned_metadata, "applied_guardrails", List(<<>>))) = 0
             THEN Pop(cleaned_metadata, "applied_guardrails")
             ELSE cleaned_metadata

\* variant: the "support" keys of model_map_value are left in place
_clean_model_map_information_keep_support(model_map_info) ==
    IF ~Truthy(model_map_info) THEN EmptyMap
    ELSE LET cleaned_model_map_info ==
                 Restrict(model_map_info.v,
                          {k \in DOMAIN model_map_info.v : model_map_info.v[k] # None})
         IN  IF "model_map_value" \in DOMAIN cleaned_model_map_info
             THEN LET mmv == cleaned_model_map_info["model_map_value"].v
                  IN  Put(cleaned_model_map_info, "model_map_value",
                          Dict(Restrict(mmv, {k \in DOMAIN mmv : mmv[k] # None})))
             ELSE cleaned_model_map_info

\* model_map_info is None or a dict whose "model_map_value", when not None, is a dict
_clean_model_map_information(model_map_info) ==
    IF ~Truthy(model_map_info) THEN EmptyMap
    ELSE LET cleaned_model_map_info ==
                 Restrict(model_map_info.v,
                          {k \in DOMAIN model_map_info.v : model_map_info.v[k] # None})
         IN  IF "model_map_value" \in DOMAIN cleaned_model_map_info
             THEN LET mmv == cleaned_model_map_info["model_map_value"].v
                      no_none == Restrict(mmv, {k \in DOMAIN mmv : mmv[k] # None})
                      no_support ==
                          Restrict(no_none, {k \in DOMAIN no_none : ~Contains("support", k)})
                  IN  Put(cleaned_model_map_info, "model_map_value", Dict(no_support))
             ELSE cleaned_model_map_info

\* variant: kwargs.get("standard_logging_data", {})
get_standard_logging_data_or_empty(kw) == Get(kw, "standard_logging_data", Dict(EmptyMap))

\* kwargs.get("standard_logging_data")
get_standard_logging_data(kw) == Get(kw, "standard_logging_data", None)

_prepare_data(kw) ==
    LET raw == get_standard_logging_data(kw)
    IN  IF raw.t # "dict" THEN Raise("AttributeError")   \* None.items() / "x".items()
        ELSE
        LET d1 == _remove_keys_with_tokens(raw.v)
            call_type == Get(d1, "call_type", None)
            d2 == Pop(d1, "stream")
            d3 == _remove_timing_keys(d2)
            metadata == Get(d3, "metadata", None)
            d4 == Put(Pop(d3, "metadata"), "metadata",
                      Dict(_redact_and_clean_metadata(metadata)))
            d5 == Pop(d4, "hidden_params")
            model_map_information == Get(d5, "model_map_information", None)
            d6 == Put(Pop(d5, "model_map_information"), "model_map_information",
                      Dict(_clean_model_map_information(model_map_information)))
            error_str == Get(d6, "error_str", None)
            d7 == Pop(d6, "error_str")
            error_information == Get(d7, "error_information", None)
            d8 == Pop(d7, "error_information")
            d9 == Pop(d8, "response_cost_failure_debug_info")
            d10 == Pop(d9, "guardrail_information")
            llm_response == Get(d10, "response", None)
        IN  WeaveLogData(d10, call_type, error_str, error_information, llm_response)

----------------------------------------------------------------------------
(* WeaveLogger._prepare_call_start_payload / _prepare_call_end_payload *)

\* json.dumps(obj): the JSON text, represented by the document it encodes
json_dumps(obj) == [t |-> "json", v |-> obj]

\* datetime.isoformat() for the datetimes 2024-01-01 00:00:0s
Digits == <<"0", "1", "2", "3", "4", "5", "6", "7", "8", "9">>
isoformat(d) == "2024-01-01T00:00:0" \o Digits[d + 1]

_prepare_call_start_payload(creds, data, start_time_str) ==
    json_dumps(
        [start |->
            [project_id   |-> IF Len(creds.wandb_entity) # 0
                              THEN creds.wandb_entity \o "/" \o creds.weave_project
                              ELSE creds.weave_project,
             op_name      |-> "litellm." \o data.call_type,
             display_name |-> "litellm." \o data.call_type,
             started_at   |-> start_time_str,
             attributes   |-> EmptyMap,
             inputs       |-> data.standard_logging_data]])

\* the body is `pass`: the method returns None
_prepare_call_end_payload(creds, data, end_time_str) == None

----------------------------------------------------------------------------
(* The inputs: kwargs as the logging framework hands them to the hooks *)

SubsetsUpTo(S, n) == {T \in SUBSET S : Cardinality(T) <= n}

\* call_type, the error fields and the response
CoreFields ==
    ("call_type" :> Str("completion")) @@
    ("error_str" :> Str("boom")) @@
    ("error_information" :> Dict("error_class" :> Str("RateLimitError"))) @@
    ("response" :> Dict("id" :> Str("chatcmpl-1")))

\* which of them a payload carries: all, all but one, or none
CoreShapes ==
    {DOMAIN CoreFields, {}} \cup {(DOMAIN CoreFields) \ {k} : k \in DOMAIN CoreFields}

\* further top-level keys of the standard logging payload
ExtraFields ==
    ("total_tokens" :> Num(42)) @@
    ("startTime" :> Num(1)) @@
    ("endTime" :> Num(2)) @@
    ("completionStartTime" :> Num(2)) @@
    ("response_time" :> Num(1)) @@
    ("stream" :> Bool(TRUE)) @@
    ("hidden_params" :> Dict("model_id" :> Str("m1"))) @@
    ("guardrail_information" :> Dict("guardrail_name" :> Str("pii"))) @@
    ("model" :> Str("gpt-4"))

MetaKeys == {"user_api_key", "note", "applied_guardrails"}
MetaValues(k) ==
    CASE k = "user_api_key"       -> {None, Str("sk-1")}
      [] k = "applied_guardrails" -> {None, List(<<>>), List(<<Str("pii")>>)}
      [] OTHER                    -> {None, Str("hi"), List(<<>>)}
Metadatas ==
    UNION {{m \in [S -> UNION {MetaValues(k) : k \in S}] : \A k \in S : m[k] \in MetaValues(k)} :
              S \in SubsetsUpTo(MetaKeys, MaxMeta)}

MapValueFields ==
    ("max_tokens" :> Num(100)) @@
    ("supports_vision" :> Bool(TRUE)) @@
    ("mode" :> None)
MapValues == {Restrict(MapValueFields, S) : S \in SubsetsUpTo(DOMAIN MapValueFields, MaxMapValue)}
ModelMapInfos ==
    {k @@ v : k \in {EmptyMap, "model_map_key" :> Str("gpt-4")},
              v \in {EmptyMap, "model_map_value" :> None}
                    \cup {"model_map_value" :> Dict(m) : m \in MapValues}}

\* an optional key: absent, or present with one of the values
Optional(key, values) == {EmptyMap} \cup {key :> v : v \in values}

\* payloads without the nested sub-mappings
FlatLoggingData ==
    {c @@ e :
        c \in {Restrict(CoreFields, S) : S \in CoreShapes},
        e \in {Restrict(ExtraFields, S) : S \in SubsetsUpTo(DOMAIN ExtraFields, MaxExtra)}}

StandardLoggingData ==
    {f @@ m @@ i :
        f \in FlatLoggingData,
        m \in Optional("metadata", {None} \cup {Dict(x) : x \in Metadatas}),
        i \in Optional("model_map_information", {Dict(x) : x \in ModelMapInfos})}

NotMappings == {None, Str("not a mapping")}

\* kwargs for _prepare_data
RawInputs ==
    Optional("standard_logging_data", NotMappings \cup {Dict(d) : d \in StandardLoggingData})

\* kwargs the hooks are exercised with
EventInputs ==
    Optional("standard_logging_data", NotMappings \cup {Dict(d) : d \in FlatLoggingData})

DateTimes == 0..MaxSecond

NotCalled == [ok |-> FALSE, error |-> "not called"]

----------------------------------------------------------------------------
(* _prepare_data as a function: applied once, applied again to its own     *)
(* standard_logging_data, and fed to _prepare_call_start_payload.          *)

SomeArguments ==
    [wandb_api_key |-> Str("key"), wandb_entity |-> Str("team"), weave_project |-> Str("proj")]

SomeCredentials ==
    [wandb_api_key |-> "key", wandb_entity |-> "team", weave_project |-> "proj"]

InitData ==
    /\ environ = EmptyMap
    /\ logger = "ready"
    /\ init_args = SomeArguments
    /\ credentials = SomeCredentials
    /\ hook = "none"
    /\ pc = "input"
    /\ kwargs \in RawInputs
    /\ times = <<0, 0>>
    /\ log_data = NotCalled
    /\ again = NotCalled
    /\ payload = None
    /\ error = "none"
    /\ emitted = <<>>

Prepare ==
    /\ pc = "input"
    /\ log_data' = _prepare_data(kwargs)
    /\ pc' = "prepared"
    /\ UNCHANGED <<environ, logger, init_args, credentials, hook, kwargs, times, again, payload,
                   error, emitted>>

PrepareAgain ==
    /\ pc = "prepared"
    /\ log_data.ok
    /\ again' = _prepare_data("standard_logging_data" :> Dict(log_data.value.standard_logging_data))
    /\ pc' = "again"
    /\ UNCHANGED <<environ, logger, init_args, credentials, hook, kwargs, times, log_data, payload,
                   error, emitted>>

BuildStart ==
    /\ pc = "prepared"
    /\ log_data.ok
    /\ \E t \in DateTimes :
          /\ times' = <<t, t>>
          /\ payload' = _prepare_call_start_payload(credentials, log_data.value, isoformat(t))
    /\ pc' = "built"
    /\ UNCHANGED <<environ, logger, init_args, credentials, hook, kwargs, log_data, again, error, emitted>>

NextData == Prepare \/ PrepareAgain \/ BuildStart

SpecData == InitData /\ [][NextData]_vars

----------------------------------------------------------------------------
(* The logger: construction, then the success and failure hooks *)

Environs ==
    {k @@ e @@ p :
        k \in Optional("WANDB_API_KEY", {"env-key"}),
        e \in Optional("WANDB_ENTITY", {"", "env-team"}),
        p \in Optional("WANDB_PROJECT", {"env-proj"})}

Init ==
    /\ environ \in Environs
    /\ logger = "new"
    /\ init_args = None
    /\ credentials = None
    /\ hook = "none"
    /\ pc = "idle"
    /\ kwargs = EmptyMap
    /\ times = <<0, 0>>
    /\ log_data = NotCalled
    /\ again = NotCalled
    /\ payload = None
    /\ error = "none"
    /\ emitted = <<>>

__init__(wandb_api_key, wandb_entity, weave_project) ==
    /\ logger = "new"
    /\ init_args' = [wandb_api_key |-> wandb_api_key, wandb_entity |-> wandb_entity,
                     weave_project |-> weave_project]
    /\ LET r == _get_credentials_from_env(environ, wandb_api_key, wandb_entity, weave_project)
       IN  IF r.ok
           THEN /\ logger' = "ready"
                /\ credentials' = r.value
                /\ error' = "none"
           ELSE /\ logger' = "failed"
                /\ credentials' = None
                /\ error' = r.error
    /\ UNCHANGED <<environ, hook, pc, kwargs, times, log_data, again, payload, emitted>>

\* the common body of log_success_event and log_failure_event up to the
\* first outbound call: _prepare_data, then the two isoformat() calls
Enter(h, kw, start_time, end_time) ==
    /\ logger = "ready"
    /\ pc = "idle"
    /\ hook' = h
    /\ kwargs' = kw
    /\ times' = <<start_time, end_time>>
    /\ log_data' = _prepare_data(kw)
    /\ emitted' = <<>>
    /\ IF _prepare_data(kw).ok
       THEN pc' = "_log_call_start" /\ error' = "none"
       ELSE pc' = "raised" /\ error' = _prepare_data(kw).error
    /\ UNCHANGED <<environ, logger, init_args, credentials, again, payload>>

log_success_event(kw, start_time, end_time) == Enter("success", kw, start_time, end_time)

log_failure_event(kw, start_time, end_time) == Enter("failure", kw, start_time, end_time)

\* self._log_call_start(log_data, start_time_str)
_log_call_start ==
    /\ pc = "_log_call_start"
    /\ emitted' = Append(emitted,
                    [endpoint |-> "call/start",
                     body |-> _prepare_call_start_payload(credentials, log_data.value,
                                                          isoformat(times[1]))])
    /\ pc' = "_log_call_end"
    /\ UNCHANGED <<environ, logger, init_args, credentials, hook, kwargs, times, log_data, again,
                   payload, error>>

\* self._log_call_end(log_data, end_time_str)
_log_call_end ==
    /\ pc = "_log_call_end"
    /\ emitted' = Append(emitted,
                    [endpoint |-> "call/end",
                     body |-> _prepare_call_end_payload(credentials, log_data.value,
                                                        isoformat(times[2]))])
    /\ pc' = "done"
    /\ UNCHANGED <<environ, logger, init_args, credentials, hook, kwargs, times, log_data, again,
                   payload, error>>

\* the hook returns, or its exception has propagated, to the logging framework:
\* the locals of the call are gone and the logger is ready for the next event
HookExit ==
    /\ pc \in {"done", "raised"}
    /\ pc' = "idle"
    /\ hook' = "none"
    /\ kwargs' = EmptyMap
    /\ times' = <<0, 0>>
    /\ log_data' = NotCalled
    /\ error' = "none"
    /\ emitted' = <<>>
    /\ UNCHANGED <<environ, logger, init_args, credentials, again, payload>>

Next ==
    \/ /\ logger = "new"
       /\ \E k \in {None, Str("key")}, e \in {None, Str("team")}, p \in {None, Str("proj")} :
             __init__(k, e, p)
    \/ /\ pc = "idle"
       /\ \E kw \in EventInputs, s \in DateTimes, e \in DateTimes :
             s <= e /\ log_success_event(kw, s, e)
    \/ /\ pc = "idle"
       /\ \E kw \in EventInputs, s \in DateTimes, e \in DateTimes :
             s <= e /\ log_failure_event(kw, s, e)
    \/ _log_call_start
    \/ _log_call_end
    \/ HookExit

Spec == Init /\ [][Next]_vars

----------------------------------------------------------------------------
(* Properties *)

IsMapping(kw) ==
    "standard_logging_data" \in DOMAIN kw /\ kw["standard_logging_data"].t = "dict"

\* the raw standard_logging_data of the current kwargs (when IsMapping)
Source == kwargs["standard_logging_data"].v

\* the sanitized fields of the record _prepare_data returned (when log_data.ok)
Fields == log_data.value.standard_logging_data

\* C1: a record returned by _prepare_data has no top-level key containing
\* "token" and none of the four timing keys.
C1_NoTokenOrTimingKeys ==
    log_data.ok =>
        \A k \in DOMAIN Fields :
            /\ ~Contains("token", k)
            /\ k \notin {"startTime", "endTime", "completionStartTime", "response_time"}

C1_Witness ==
    /\ log_data.ok
    /\ \E k \in DOMAIN Source : Contains("token", k)

\* C2: the metadata of a returned record has no key containing "_api_", no
\* None value, no applied_guardrails whose source value was an empty sequence,
\* and keeps every other entry of the source metadata with its value.
IsEmptySequence(v) == v.t = "list" /\ Len(v.v) = 0

C2_MetadataRedacted ==
    (log_data.ok /\ "metadata" \in DOMAIN Source /\ Source["metadata"].t = "dict") =>
        LET src == Source["metadata"].v
            out == Fields["metadata"].v
            dropped(k) == \/ Contains("_api_", k)
                          \/ src[k] = None
                          \/ k = "applied_guardrails" /\ IsEmptySequence(src[k])
        IN  /\ \A k \in DOMAIN out : ~Contains("_api_", k) /\ out[k] # None
            /\ ("applied_guardrails" \in DOMAIN src /\ IsEmptySequence(src["applied_guardrails"]))
                  => "applied_guardrails" \notin DOMAIN out
            /\ \A k \in DOMAIN src : ~dropped(k) => (k \in DOMAIN out /\ out[k] = src[k])

C2_Witness ==
    /\ log_data.ok
    /\ "metadata" \in DOMAIN Source
    /\ Source["metadata"] = Dict("applied_guardrails" :> List(<<>>))
    /\ Fields["metadata"] = Dict(EmptyMap)

\* C3: the model_map_information of a returned record has no None-valued
\* top-level key, and its model_map_value, when present, has no None-valued
\* key and no key containing "support".
C3_ModelMapCleaned ==
    (log_data.ok /\ "model_map_information" \in DOMAIN Source) =>
        LET out == Fields["model_map_information"].v
        IN  /\ \A k \in DOMAIN out : out[k] # None
            /\ "model_map_value" \in DOMAIN out =>
                  \A k \in DOMAIN out["model_map_value"].v :
                      /\ out["model_map_value"].v[k] # None
                      /\ ~Contains("support", k)

C3_Witness ==
    /\ log_data.ok
    /\ "model_map_information" \in DOMAIN Source
    /\ "model_map_value" \in DOMAIN Source["model_map_information"].v
    /\ Source["model_map_information"].v["model_map_value"] =
           Dict("supports_vision" :> Bool(TRUE))
    /\ Fields["model_map_information"].v["model_map_value"] = Dict(EmptyMap)

\* C4: _prepare_data applied to the fields of the record it returned yields
\* that record again (same fields, call_type, error_str, error_information
\* and response).
C4_Idempotent ==
    pc = "again" => again = log_data

KeyMissing ==
    init_args.wandb_api_key = None /\ "WANDB_API_KEY" \notin DOMAIN environ

ProjectMissing ==
    init_args.weave_project = None /\ "WANDB_PROJECT" \notin DOMAIN environ

EntityMissing ==
    init_args.wandb_entity = None /\ "WANDB_ENTITY" \notin DOMAIN environ

C6_ConstructionFails ==
    (logger # "new" /\ (KeyMissing \/ ProjectMissing)) =>
        /\ logger = "failed"
        /\ credentials = None
        /\ error # "none"
        /\ hook = "none"
        /\ pc = "idle"
        /\ log_data = NotCalled
        /\ emitted = <<>>

C6_Witness ==
    /\ logger = "failed"
    /\ ProjectMissing
    /\ ~KeyMissing
    /\ ~EntityMissing

\* C7: on kwargs whose standard_logging_data is a mapping (call_type given),
\* _prepare_data returns a record even when metadata, model_map_information,
\* error_str, error_information or response are absent: metadata and
\* model_map_information are present in the result, absent error fields and
\* response are None.
C7_TolerantOfOmissions ==
    (pc = "prepared" /\ IsMapping(kwargs) /\ "call_type" \in DOMAIN Source) =>
        /\ log_data.ok
        /\ {"metadata", "model_map_information"} \subseteq DOMAIN Fields
        /\ "metadata" \notin DOMAIN Source => Fields["metadata"] = Dict(EmptyMap)
        /\ "model_map_information" \notin DOMAIN Source =>
               Fields["model_map_information"] = Dict(EmptyMap)
        /\ "error_str" \notin DOMAIN Source => log_data.value.error_str = None
        /\ "error_information" \notin DOMAIN Source => log_data.value.error_information = None
        /\ "response" \notin DOMAIN Source => log_data.value.response = None

\* C8: the start payload has the single key "start"; op_name and display_name
\* are "litellm." + call_type, started_at is the given timestamp, attributes
\* is empty, and inputs are the sanitized fields without call_type, the error
\* fields and the response.
C8_StartPayload ==
    pc = "built" =>
        /\ payload.t = "json"
        /\ DOMAIN payload.v = {"start"}
        /\ payload.v.start.op_name = "litellm." \o log_data.value.call_type
        /\ payload.v.start.display_name = "litellm." \o log_data.value.call_type
        /\ payload.v.start.started_at = isoformat(times[1])
        /\ payload.v.start.attributes = EmptyMap
        /\ payload.v.start.inputs =
               Restrict(Fields, (DOMAIN Fields) \
                                  {"call_type", "error_str", "error_information", "response"})

\* C9: a logger given an API key and a project but no entity is constructed,
\* and the project id of its payloads is the bare project; with an entity it
\* is entity/project.
C9_ProjectId ==
    /\ (logger # "new" /\ ~KeyMissing /\ ~ProjectMissing /\ EntityMissing) => logger = "ready"
    /\ Len(emitted) >= 1 =>
           emitted[1].body.v.start.project_id =
               IF EntityMissing THEN credentials.weave_project
               ELSE credentials.wandb_entity \o "/" \o credentials.weave_project

\* C10: a hook that has run to its end has emitted exactly two payloads, in
\* this order: one with the key "start", one with the key "end".
C10_StartThenEnd ==
    pc = "done" =>
        /\ Len(emitted) = 2
        /\ emitted[1].endpoint = "call/start"
        /\ emitted[1].body.t = "json"
        /\ DOMAIN emitted[1].body.v = {"start"}
        /\ emitted[2].endpoint = "call/end"
        /\ emitted[2].body.t = "json"
        /\ DOMAIN emitted[2].body.v = {"end"}

====
